---- MODULE Spec2Model ----
(***************************************************************************)
(* Model of parse_excel.py: the row coercers (parse_book_data,             *)
(* parse_volunteers, parse_schools), the column detector                   *)
(* (auto_detect_columns), the workbook loader (parse_excel_file), the two  *)
(* exporters and the command-line entry point (main).                      *)
(*                                                                         *)
(* Numbers are fixed-point tenths (401 stands for 40.1).  A worksheet      *)
(* cell is a number, an empty cell (pandas yields NaN), a text or a date.  *)
(***************************************************************************)
EXTENDS Integers, Sequences, FiniteSets, TLC

VARIABLES
    pc,               \* position of the running function
    df,               \* the table handed to a row coercer / the detector
    data_type,        \* the dataset kind of the call
    mapping,          \* auto_detect_columns: the returned dict
    records,          \* row coercer: the returned list
    warnings,         \* row coercer: number of "Warning: Skipping ..." lines
    exc,              \* the exception that left the function ("" = none)
    argv,             \* main: sys.argv
    fs,               \* the file system: input exists / opens, output opens
    workbook,         \* the sheets of the workbook, in order
    args,             \* parse_excel_file: the arguments as passed
    sheet_names,      \* parse_excel_file: the sheet_names dict
    column_mappings,  \* parse_excel_file: the column_mappings dict
    result,           \* parse_excel_file: the result dict
    calls,            \* what parse_excel_file did for each kind
    written,          \* the output file written by an exporter
    stderr,           \* lines written to sys.stderr
    exit_code         \* the exit status of the process (-1 = still running)

vars == <<pc, df, data_type, mapping, records, warnings, exc, argv, fs,
          workbook, args, sheet_names, column_mappings, result, calls, written,
          stderr, exit_code>>

loadVars == <<argv, fs, workbook, args, sheet_names, column_mappings, result,
              calls, written, stderr, exit_code>>

-----------------------------------------------------------------------------
(* Bounds of the model.                                                    *)

MaxRows == 2
MaxCols == 3
MaxSheets == 3

-----------------------------------------------------------------------------
(* Python values.                                                          *)

None == "[None]"
NoExc == ""

Range(s) == {s[i] : i \in DOMAIN s}

EmptyDict == [k \in {} |-> None]

\* dict.get(key, default)
DictGet(d, key, default) == IF key \in DOMAIN d THEN d[key] ELSE default

\* `a or b` on strings and None: a when a is truthy
Truthy(a) == a # None /\ a # ""
PyOr(a, b) == IF Truthy(a) THEN a ELSE b

\* a float: NaN or a number of tenths
PyFloat(v) == [nan |-> FALSE, v |-> v]
PyNaN == [nan |-> TRUE, v |-> 0]

\* worksheet cells as pandas yields them
Num(v) == [t |-> "num", v |-> v, s |-> ""]
Text(s) == [t |-> "str", v |-> 0, s |-> s]
NaNCell == [t |-> "nan", v |-> 0, s |-> ""]
DateCell == [t |-> "date", v |-> 0, s |-> ""]

\* what Python's number grammar makes of a cell's text: whether it is a
\* float literal, whether it is an integer literal, and its value in tenths
\* ("abc", "Ann" and "Oak School" are neither)
TextIsFloat(s) == s \in {"2.5", "7"}
TextIsInt(s) == s \in {"7"}
TextTenths(s) == IF s = "2.5" THEN 25 ELSE IF s = "7" THEN 70 ELSE 0

\* truncation toward zero of a number of tenths
Trunc(v) == IF v >= 0 THEN v \div 10 ELSE -((-v) \div 10)

\* float(x)
float(c) ==
    CASE c.t = "num" -> [exc |-> NoExc, val |-> PyFloat(c.v)]
      [] c.t = "nan" -> [exc |-> NoExc, val |-> PyNaN]
      [] c.t = "str" -> IF TextIsFloat(c.s)
                        THEN [exc |-> NoExc, val |-> PyFloat(TextTenths(c.s))]
                        ELSE [exc |-> "ValueError", val |-> PyNaN]
      [] OTHER -> [exc |-> "TypeError", val |-> PyNaN]

\* int(x)
int(c) ==
    CASE c.t = "num" -> [exc |-> NoExc, val |-> Trunc(c.v)]
      [] c.t = "nan" -> [exc |-> "ValueError", val |-> 0]
      [] c.t = "str" -> IF TextIsInt(c.s)
                        THEN [exc |-> NoExc, val |-> Trunc(TextTenths(c.s))]
                        ELSE [exc |-> "ValueError", val |-> 0]
      [] OTHER -> [exc |-> "TypeError", val |-> 0]

\* str(x): never fails
NumStr(v) ==
    (IF v < 0 THEN "-" ELSE "") \o ToString(Trunc(IF v < 0 THEN -v ELSE v))
        \o "." \o ToString((IF v < 0 THEN -v ELSE v) % 10)
str(c) ==
    CASE c.t = "num" -> NumStr(c.v)
      [] c.t = "nan" -> "nan"
      [] c.t = "str" -> c.s
      [] OTHER -> "2024-01-01 00:00:00"

-----------------------------------------------------------------------------
(* Row coercers.                                                           *)

\* row[col]: KeyError when the row has no such label
RowGet(row, col) ==
    IF col \in DOMAIN row THEN [exc |-> NoExc, cell |-> row[col]]
    ELSE [exc |-> "KeyError", cell |-> NaNCell]

FloatField(row, col) ==
    LET g == RowGet(row, col)
    IN  IF g.exc # NoExc THEN [exc |-> g.exc, val |-> PyNaN] ELSE float(g.cell)

IntField(row, col) ==
    LET g == RowGet(row, col)
    IN  IF g.exc # NoExc THEN [exc |-> g.exc, val |-> 0] ELSE int(g.cell)

StrField(row, col) ==
    LET g == RowGet(row, col)
    IN  IF g.exc # NoExc THEN [exc |-> g.exc, val |-> ""]
        ELSE [exc |-> NoExc, val |-> str(g.cell)]

\* the first exception raised when the fields are evaluated in order
RECURSIVE FirstExc(_)
FirstExc(es) ==
    IF es = <<>> THEN NoExc
    ELSE IF Head(es) # NoExc THEN Head(es) ELSE FirstExc(Tail(es))

\* the id used when the row has no id column
DefaultId_Mut(idx) == idx
DefaultId(idx) == idx + 1

\* `int(row[id_col]) if id_col in row else idx + 1`
IdField(row, id_col, idx) ==
    IF id_col \in DOMAIN row THEN IntField(row, id_col)
    ELSE [exc |-> NoExc, val |-> DefaultId(idx)]

\* the body of the try block of parse_book_data for one row
BookRow(row, lat_col, lng_col, count_col) ==
    LET la == FloatField(row, lat_col)
        lo == FloatField(row, lng_col)
        n  == IntField(row, count_col)
    IN  [exc |-> FirstExc(<<la.exc, lo.exc, n.exc>>),
         rec |-> [lat |-> la.val, lng |-> lo.val, count |-> n.val]]

\* the body of the try block of parse_volunteers for one row
VolunteerRow(row, idx, id_col, lat_col, lng_col, name_col, books_col) ==
    LET id == IdField(row, id_col, idx)
        la == FloatField(row, lat_col)
        lo == FloatField(row, lng_col)
        nm == StrField(row, name_col)
        b  == IntField(row, books_col)
    IN  [exc |-> FirstExc(<<id.exc, la.exc, lo.exc, nm.exc, b.exc>>),
         rec |-> [id |-> id.val, lat |-> la.val, lng |-> lo.val,
                  name |-> nm.val, books |-> b.val]]

\* the body of the try block of parse_schools for one row
SchoolRow(row, idx, id_col, lat_col, lng_col, name_col, students_col) ==
    LET id == IdField(row, id_col, idx)
        la == FloatField(row, lat_col)
        lo == FloatField(row, lng_col)
        nm == StrField(row, name_col)
        s  == IntField(row, students_col)
    IN  [exc |-> FirstExc(<<id.exc, la.exc, lo.exc, nm.exc, s.exc>>),
         rec |-> [id |-> id.val, lat |-> la.val, lng |-> lo.val,
                  name |-> nm.val, students |-> s.val]]

\* `except (ValueError, KeyError)`: the exceptions the loop catches
Caught(e) == e \in {"ValueError", "KeyError"}

\* the `for ... in df.iterrows()` loop over the rows' try blocks rs, from row
\* i on: a row without exception is appended, a caught one warns and
\* continues, any other exception leaves the function
RECURSIVE IterRows(_, _, _)
IterRows(rs, i, acc) ==
    IF i > Len(rs) THEN acc
    ELSE IF rs[i].exc = NoExc
         THEN IterRows(rs, i + 1,
                       [acc EXCEPT !.records = Append(@, rs[i].rec),
                                   !.visited = i])
    ELSE IF Caught(rs[i].exc)
         THEN IterRows(rs, i + 1,
                       [acc EXCEPT !.warnings = @ + 1, !.visited = i])
    ELSE [acc EXCEPT !.exc = rs[i].exc, !.visited = i]

EmptyRun == [records |-> <<>>, warnings |-> 0, exc |-> NoExc, visited |-> 0]

parse_book_data(d, lat_col, lng_col, count_col) ==
    IterRows([i \in 1..Len(d.rows) |->
                 BookRow(d.rows[i], lat_col, lng_col, count_col)],
             1, EmptyRun)

parse_volunteers(d, id_col, lat_col, lng_col, name_col, books_col) ==
    IterRows([i \in 1..Len(d.rows) |->
                 VolunteerRow(d.rows[i], i - 1, id_col, lat_col, lng_col,
                              name_col, books_col)],
             1, EmptyRun)

parse_schools(d, id_col, lat_col, lng_col, name_col, students_col) ==
    IterRows([i \in 1..Len(d.rows) |->
                 SchoolRow(d.rows[i], i - 1, id_col, lat_col, lng_col,
                           name_col, students_col)],
             1, EmptyRun)

-----------------------------------------------------------------------------
(* The tables the row coercers are applied to.                             *)

Kinds == {"books", "volunteers", "schools"}

\* the literal default column names of each kind's roles
Roles(kind) ==
    CASE kind = "books" -> <<"lat", "lng", "count">>
      [] kind = "volunteers" -> <<"id", "lat", "lng", "name", "books">>
      [] kind = "schools" -> <<"id", "lat", "lng", "name", "students">>

\* a table: its column labels in order and its rows, each row a function
\* from the labels to cells; df.iterrows() yields (i - 1, rows[i])
DataFrame(cols, rows) == [columns |-> cols, rows |-> rows]

\* the cells the columns of the generated tables hold
CoordCells == {Num(401), NaNCell, Text("abc"), DateCell}
CountCells == {Num(30), NaNCell, Text("abc"), DateCell}
IdCells == {Num(70), Text("abc")}
NameCells == {Text("Ann"), NaNCell}

\* the column layouts of the generated tables, each with the rows it may
\* hold: every role's column, the layout without the id column, and for
\* books one without the count column
Layouts(kind) ==
    CASE kind = "books" ->
            {[columns |-> <<"lat", "lng", "count">>,
              rows |-> [lat : CoordCells, lng : {Num(-739), DateCell},
                        count : CountCells]],
             [columns |-> <<"lat", "lng">>,
              rows |-> [lat : CoordCells, lng : {Num(-739), DateCell}]]}
      [] kind = "volunteers" ->
            {[columns |-> <<"id", "lat", "lng", "name", "books">>,
              rows |-> [id : IdCells, lat : CoordCells, lng : {Num(-739)},
                        name : NameCells, books : {Num(30), NaNCell}]],
             [columns |-> <<"lat", "lng", "name", "books">>,
              rows |-> [lat : CoordCells, lng : {Num(-739)},
                        name : NameCells, books : {Num(30), NaNCell}]]}
      [] kind = "schools" ->
            {[columns |-> <<"id", "lat", "lng", "name", "students">>,
              rows |-> [id : IdCells, lat : CoordCells, lng : {Num(-739)},
                        name : NameCells, students : {Num(30), NaNCell}]],
             [columns |-> <<"lat", "lng", "name", "students">>,
              rows |-> [lat : CoordCells, lng : {Num(-739)},
                        name : NameCells, students : {Num(30), NaNCell}]]}

\* the tables of a layout with at most MaxRows rows
TablesOver(layout) ==
    {DataFrame(layout.columns, rows) :
        rows \in UNION {[1..n -> layout.rows] : n \in 0..MaxRows}}

-----------------------------------------------------------------------------
(* SpecCoerce: a row coercer applied to a table, with the default column    *)
(* arguments of its signature.                                             *)

NoFs == [exists |-> FALSE, opens |-> FALSE, writable |-> FALSE]
NoArgs == [sheet_names |-> [none |-> TRUE, d |-> EmptyDict],
           column_mappings |-> [none |-> TRUE, d |-> EmptyDict]]
NoCall == [visited |-> FALSE, sheet |-> None, detected |-> FALSE,
           mapping |-> EmptyDict, cols |-> EmptyDict, raised |-> FALSE]
NoCalls == [k \in Kinds |-> NoCall]
NoResult == [bookData |-> <<>>, volunteers |-> <<>>, schools |-> <<>>]
NoFile == [path |-> None, format |-> None, consts |-> <<>>, data |-> NoResult]

LoadIdle ==
    /\ argv = <<>>
    /\ fs = NoFs
    /\ workbook = <<>>
    /\ args = NoArgs
    /\ sheet_names = EmptyDict
    /\ column_mappings = EmptyDict
    /\ result = NoResult
    /\ calls = NoCalls
    /\ written = NoFile
    /\ stderr = <<>>
    /\ exit_code = -1

InitCoerce ==
    /\ pc = "call"
    /\ data_type \in Kinds
    /\ \E layout \in Layouts(data_type) : df \in TablesOver(layout)
    /\ mapping = EmptyDict
    /\ records = <<>>
    /\ warnings = 0
    /\ exc = NoExc
    /\ LoadIdle

Finish(run) ==
    /\ records' = run.records
    /\ warnings' = run.warnings
    /\ exc' = run.exc
    /\ pc' = IF run.exc = NoExc THEN "returned" ELSE "raised"
    /\ UNCHANGED <<df, data_type, mapping>>
    /\ UNCHANGED loadVars

CallParseBookData ==
    /\ pc = "call"
    /\ data_type = "books"
    /\ Finish(parse_book_data(df, "lat", "lng", "count"))

CallParseVolunteers ==
    /\ pc = "call"
    /\ data_type = "volunteers"
    /\ Finish(parse_volunteers(df, "id", "lat", "lng", "name", "books"))

CallParseSchools ==
    /\ pc = "call"
    /\ data_type = "schools"
    /\ Finish(parse_schools(df, "id", "lat", "lng", "name", "students"))

NextCoerce ==
    \/ CallParseBookData
    \/ CallParseVolunteers
    \/ CallParseSchools

SpecCoerce == InitCoerce /\ [][NextCoerce]_vars

-----------------------------------------------------------------------------
(* Claims about the row coercers.                                          *)

\* the columns a record's numeric fields are read from: the coordinates and
\* the count-like column, and the id column when the table has one
RequiredCols(kind, cols) ==
    CASE kind = "books" -> {"lat", "lng", "count"}
      [] kind = "volunteers" -> {"lat", "lng", "books"} \cup (Range(cols) \cap {"id"})
      [] kind = "schools" -> {"lat", "lng", "students"} \cup (Range(cols) \cap {"id"})

\* a cell that holds a number (a numeric cell or a text that spells one)
IsNumber(c) == c.t = "num" \/ (c.t = "str" /\ TextIsFloat(c.s))

NumericRow(kind, cols, row) ==
    \A c \in RequiredCols(kind, cols) : c \in DOMAIN row /\ IsNumber(row[c])

NumericRows == {i \in 1..Len(df.rows) : NumericRow(data_type, df.columns, df.rows[i])}

\* C1 (as claimed): a coercer that returns has emitted exactly one record per
\* row whose required fields are all numbers, every other row (text or empty
\* cell in a required field) is absent and has one warning, so that
\* records + warnings = number of rows.
C1_Original ==
    pc = "returned" =>
        /\ Len(records) = Cardinality(NumericRows)
        /\ warnings = Len(df.rows) - Cardinality(NumericRows)

\* C2 (as claimed): whatever the cells hold (number, text, empty cell, date),
\* no exception leaves a row coercer.
C2_Original == pc # "raised"

\* a volunteers or schools table without id column
NoIdTable == data_type \in {"volunteers", "schools"} /\ "id" \notin Range(df.columns)

\* the fields of rec are the conversions of the cells of row
BuiltFromRow(rec, row) ==
    /\ rec.lat = float(row["lat"]).val
    /\ rec.lng = float(row["lng"]).val
    /\ rec.name = str(row["name"])
    /\ IF data_type = "volunteers"
       THEN rec.books = int(row["books"]).val
       ELSE rec.students = int(row["students"]).val

\* C5: in a volunteers or schools table without id column, every record
\* carries as id the 1-based position of the row it was built from: its
\* fields are the conversions of the cells of row number id, and the ids
\* increase along the output (rows dropped earlier do not renumber it).
C5_IdIsRowPosition ==
    (NoIdTable /\ pc \in {"returned", "raised"}) =>
        /\ \A i \in 1..Len(records) :
              /\ records[i].id \in 1..Len(df.rows)
              /\ BuiltFromRow(records[i], df.rows[records[i].id])
        /\ \A i, j \in 1..Len(records) : i < j => records[i].id < records[j].id

\* a two-row table whose first row was dropped: the record of row 2 has id 2
C5_Witness ==
    /\ NoIdTable
    /\ pc = "returned"
    /\ Len(df.rows) = 2
    /\ warnings = 1
    /\ Len(records) = 1
    /\ records[1].id = 2

-----------------------------------------------------------------------------
(* Column detector.                                                        *)

\* str.lower() on the names the model uses
Lower(s) ==
    CASE s = "LAT" -> "lat"
      [] s = "Latitude" -> "latitude"
      [] s = "Lon" -> "lon"
      [] s = "Quantity" -> "quantity"
      [] s = "ID" -> "id"
      [] s = "School" -> "school"
      [] s = "TS" -> "ts"
      [] s = "JSON" -> "json"
      [] OTHER -> s

\* the ordered candidate lists of each kind's roles
Patterns(kind) ==
    CASE kind = "books" ->
            <<[role |-> "lat", names |-> <<"lat", "latitude", "y", "coord_y">>],
              [role |-> "lng",
               names |-> <<"lng", "lon", "long", "longitude", "x", "coord_x">>],
              [role |-> "count",
               names |-> <<"count", "books", "book_count", "quantity", "num">>]>>
      [] kind = "volunteers" ->
            <<[role |-> "id", names |-> <<"id", "volunteer_id", "vol_id">>],
              [role |-> "lat", names |-> <<"lat", "latitude", "y">>],
              [role |-> "lng", names |-> <<"lng", "lon", "long", "longitude", "x">>],
              [role |-> "name",
               names |-> <<"name", "volunteer_name", "vol_name", "full_name">>],
              [role |-> "books",
               names |-> <<"books", "book_count", "books_distributed">>]>>
      [] kind = "schools" ->
            <<[role |-> "id", names |-> <<"id", "school_id">>],
              [role |-> "lat", names |-> <<"lat", "latitude", "y">>],
              [role |-> "lng", names |-> <<"lng", "lon", "long", "longitude", "x">>],
              [role |-> "name", names |-> <<"name", "school_name", "school">>],
              [role |-> "students",
               names |-> <<"students", "student_count", "num_students">>]>>
      [] OTHER -> <<>>

\* `{col.lower(): col for col in df.columns}`: a later column replaces an
\* earlier one with the same lowered name
ColumnsLower(cols) ==
    [l \in {Lower(c) : c \in Range(cols)} |->
        LET last == CHOOSE i \in DOMAIN cols :
                        /\ Lower(cols[i]) = l
                        /\ \A j \in DOMAIN cols : Lower(cols[j]) = l => j <= i
        IN  cols[last]]

\* one `for pattern in [...]` loop that takes the last candidate present
\* (the loop without its break)
RECURSIVE FirstMatch_Mut(_, _)
FirstMatch_Mut(names, columns_lower) ==
    IF names = <<>> THEN None
    ELSE IF names[Len(names)] \in DOMAIN columns_lower
         THEN columns_lower[names[Len(names)]]
    ELSE FirstMatch_Mut(SubSeq(names, 1, Len(names) - 1), columns_lower)

\* one `for pattern in [...]: if pattern in columns_lower: ...; break` loop:
\* the column of the first candidate present, None when there is none
RECURSIVE FirstMatch(_, _)
FirstMatch(names, columns_lower) ==
    IF names = <<>> THEN None
    ELSE IF Head(names) \in DOMAIN columns_lower
         THEN columns_lower[Head(names)]
    ELSE FirstMatch(Tail(names), columns_lower)

auto_detect_columns(d, kind) ==
    LET columns_lower == ColumnsLower(d.columns)
        ps == Patterns(kind)
        found == {i \in DOMAIN ps : FirstMatch(ps[i].names, columns_lower) # None}
        at(role) == CHOOSE i \in found : ps[i].role = role
    IN  [role \in {ps[i].role : i \in found} |->
            FirstMatch(ps[at(role)].names, columns_lower)]

-----------------------------------------------------------------------------
(* SpecDetect: auto_detect_columns applied to a table's column names.      *)

ColumnPool ==
    {"lat", "LAT", "Latitude", "y", "lng", "Lon", "count", "books",
     "Quantity", "id", "vol_id", "name", "school", "students", "notes"}

\* the column lists of at most MaxCols distinct names
ColumnLists ==
    {cols \in UNION {[1..n -> ColumnPool] : n \in 0..MaxCols} :
        \A i, j \in DOMAIN cols : i # j => cols[i] # cols[j]}

InitDetect ==
    /\ pc = "call"
    /\ data_type \in Kinds
    /\ \E cols \in ColumnLists : df = DataFrame(cols, <<>>)
    /\ mapping = EmptyDict
    /\ records = <<>>
    /\ warnings = 0
    /\ exc = NoExc
    /\ LoadIdle

CallAutoDetect ==
    /\ pc = "call"
    /\ mapping' = auto_detect_columns(df, data_type)
    /\ pc' = "returned"
    /\ UNCHANGED <<df, data_type, records, warnings, exc>>
    /\ UNCHANGED loadVars

NextDetect == CallAutoDetect

SpecDetect == InitDetect /\ [][NextDetect]_vars

-----------------------------------------------------------------------------
(* Claims about the column detector.                                       *)

\* C3 (as claimed): whenever the table has a column literally named lat, the
\* detector maps role lat to exactly that column, whatever other columns the
\* table has and whatever their order.
C3_Original ==
    (pc = "returned" /\ "lat" \in Range(df.columns)) =>
        ("lat" \in DOMAIN mapping /\ mapping["lat"] = "lat")

\* the positions in a role's candidate list that match a column
\* case-insensitively
Matching(names, cols) ==
    {j \in DOMAIN names : \E c \in Range(cols) : Lower(c) = names[j]}

\* C10: the detector raises nothing; the keys of its result are roles of the
\* kind; a role none of whose candidates matches a column is absent; any
\* other role is mapped to a column of the table whose lowered name is the
\* earliest matching candidate of the role's list, later matching candidates
\* notwithstanding.
C10_FirstCandidateWins ==
    pc = "returned" =>
        LET ps == Patterns(data_type)
        IN  /\ exc = NoExc
            /\ DOMAIN mapping \subseteq {ps[i].role : i \in DOMAIN ps}
            /\ \A i \in DOMAIN ps :
                  LET m == Matching(ps[i].names, df.columns)
                  IN  IF m = {} THEN ps[i].role \notin DOMAIN mapping
                      ELSE /\ ps[i].role \in DOMAIN mapping
                           /\ mapping[ps[i].role] \in Range(df.columns)
                           /\ \E j \in m :
                                 /\ \A k \in m : j <= k
                                 /\ Lower(mapping[ps[i].role]) = ps[i].names[j]

\* a books table with two latitude candidates present (latitude before y in
\* the list, y first in the table) and no count candidate
C10_Witness ==
    /\ pc = "returned"
    /\ data_type = "books"
    /\ df.columns = <<"y", "Latitude", "Lon">>
    /\ mapping = [lat |-> "Latitude", lng |-> "Lon"]

-----------------------------------------------------------------------------
(* Workbook loader.                                                        *)

\* the name of the i-th sheet of the generated workbooks
SheetName(i) == "Sheet" \o ToString(i)

\* excel_file.sheet_names
AvailableSheets(wb) == [i \in DOMAIN wb |-> wb[i].name]

\* the key of result a kind's records are stored under
ResultKey(kind) == IF kind = "books" THEN "bookData" ELSE kind

\* the sheet a kind falls back to when sheet_names names none: the 1st for
\* every kind (the index copied from the books block)
DefaultSheet_Mut(kind, available_sheets) == available_sheets[1]

\* the sheet a kind falls back to when sheet_names names none:
\* available_sheets[0] for books, [1] for volunteers and [2] for schools
\* when the workbook has that many sheets, else available_sheets[0]
DefaultSheet(kind, available_sheets) ==
    CASE kind = "books" -> available_sheets[1]
      [] kind = "volunteers" ->
            IF Len(available_sheets) > 1 THEN available_sheets[2]
            ELSE available_sheets[1]
      [] kind = "schools" ->
            IF Len(available_sheets) > 2 THEN available_sheets[3]
            ELSE available_sheets[1]

\* `sheet_names[kind] or <positional default>`
ResolveSheet(kind, names, available_sheets) ==
    PyOr(names[kind], DefaultSheet(kind, available_sheets))

\* the test without which every resolved name is handed to pd.read_excel
SheetAvailable_Mut(sheet_name, available_sheets) == TRUE

\* `if sheet_name in available_sheets`
SheetAvailable(sheet_name, available_sheets) ==
    sheet_name \in Range(available_sheets)

\* pd.read_excel(excel_file, sheet_name=...): ValueError for a sheet the
\* workbook does not have
ReadExcel(wb, sheet_name) ==
    IF \E i \in DOMAIN wb : wb[i].name = sheet_name
    THEN [exc |-> NoExc,
          df |-> wb[CHOOSE i \in DOMAIN wb : wb[i].name = sheet_name].df]
    ELSE [exc |-> "ValueError", df |-> DataFrame(<<>>, <<>>)]

\* `mapping.get(role, role)`: the column argument passed for a role
ResolveCol(m, role) == DictGet(m, role, role)

\* the test that lets detection run for every kind
NeedsDetection_Mut(kind, mappings) == TRUE

\* `if kind not in column_mappings`
NeedsDetection(kind, mappings) == kind \notin DOMAIN mappings

\* the row coercer of a kind, with the column arguments resolved from m
Coerce(kind, d, m) ==
    CASE kind = "books" ->
            parse_book_data(d, ResolveCol(m, "lat"), ResolveCol(m, "lng"),
                            ResolveCol(m, "count"))
      [] kind = "volunteers" ->
            parse_volunteers(d, ResolveCol(m, "id"), ResolveCol(m, "lat"),
                             ResolveCol(m, "lng"), ResolveCol(m, "name"),
                             ResolveCol(m, "books"))
      [] kind = "schools" ->
            parse_schools(d, ResolveCol(m, "id"), ResolveCol(m, "lat"),
                          ResolveCol(m, "lng"), ResolveCol(m, "name"),
                          ResolveCol(m, "students"))

\* an exception leaves the running function
Raise(e) ==
    /\ exc' = e
    /\ pc' = "raised"

\* one `if kind in sheet_names:` block of parse_excel_file, followed by the
\* block at `next`
ParseKind(kind, next) ==
    LET available_sheets == AvailableSheets(workbook)
        sheet_name == ResolveSheet(kind, sheet_names, available_sheets)
        read == ReadExcel(workbook, sheet_name)
        detect == NeedsDetection(kind, column_mappings)
        mappings == IF detect
                    THEN [k \in DOMAIN column_mappings \cup {kind} |->
                            IF k = kind THEN auto_detect_columns(read.df, kind)
                            ELSE column_mappings[k]]
                    ELSE column_mappings
        m == mappings[kind]
        run == Coerce(kind, read.df, m)
        call == [visited |-> TRUE, sheet |-> sheet_name, detected |-> detect,
                 mapping |-> m,
                 cols |-> [role \in Range(Roles(kind)) |-> ResolveCol(m, role)],
                 raised |-> run.exc # NoExc]
    IN  IF kind \notin DOMAIN sheet_names
        THEN /\ calls' = [calls EXCEPT ![kind].visited = TRUE]
             /\ pc' = next
             /\ UNCHANGED <<exc, column_mappings, result>>
        ELSE IF ~SheetAvailable(sheet_name, available_sheets)
        THEN /\ calls' = [calls EXCEPT ![kind].visited = TRUE]
             /\ pc' = next
             /\ UNCHANGED <<exc, column_mappings, result>>
        ELSE IF read.exc # NoExc
        THEN /\ calls' = [calls EXCEPT ![kind].visited = TRUE,
                                       ![kind].raised = TRUE]
             /\ Raise(read.exc)
             /\ UNCHANGED <<column_mappings, result>>
        ELSE /\ calls' = [calls EXCEPT ![kind] = call]
             /\ column_mappings' = mappings
             /\ IF run.exc # NoExc
                THEN Raise(run.exc) /\ UNCHANGED result
                ELSE /\ result' = [result EXCEPT ![ResultKey(kind)] = run.records]
                     /\ pc' = next
                     /\ UNCHANGED exc

AllNone == [k \in Kinds |-> None]

\* parse_excel_file up to the first block: the existence test, the default
\* arguments, the empty result and pd.ExcelFile
Open ==
    /\ pc = "open"
    /\ IF ~fs.exists
       THEN Raise("FileNotFoundError")
            /\ UNCHANGED <<sheet_names, column_mappings, result>>
       ELSE /\ sheet_names' = IF args.sheet_names.none THEN AllNone
                              ELSE args.sheet_names.d
            /\ column_mappings' = IF args.column_mappings.none THEN EmptyDict
                                  ELSE args.column_mappings.d
            /\ result' = NoResult
            /\ IF ~fs.opens
               THEN Raise("BadZipFile")
               ELSE pc' = "books" /\ UNCHANGED exc
    /\ UNCHANGED <<df, data_type, mapping, records, warnings>>
    /\ UNCHANGED <<argv, fs, workbook, args, calls, written, stderr, exit_code>>

ParseBooks ==
    /\ pc = "books"
    /\ ParseKind("books", "volunteers")
    /\ UNCHANGED <<df, data_type, mapping, records, warnings>>
    /\ UNCHANGED <<argv, fs, workbook, args, sheet_names, written, stderr, exit_code>>

ParseVolunteers ==
    /\ pc = "volunteers"
    /\ ParseKind("volunteers", "schools")
    /\ UNCHANGED <<df, data_type, mapping, records, warnings>>
    /\ UNCHANGED <<argv, fs, workbook, args, sheet_names, written, stderr, exit_code>>

ParseSchools ==
    /\ pc = "schools"
    /\ ParseKind("schools", "return")
    /\ UNCHANGED <<df, data_type, mapping, records, warnings>>
    /\ UNCHANGED <<argv, fs, workbook, args, sheet_names, written, stderr, exit_code>>

\* a run started by main (sys.argv is never empty) or a direct call
IsMain == argv # <<>>

\* `return result`: to main's export step, or to the caller
Return ==
    /\ pc = "return"
    /\ pc' = IF IsMain THEN "export" ELSE "returned"
    /\ UNCHANGED <<df, data_type, mapping, records, warnings, exc>>
    /\ UNCHANGED loadVars

-----------------------------------------------------------------------------
(* Exporters and main.                                                     *)

\* the file export_to_json writes: the aggregate as one JSON object
export_to_json(data, output_path) ==
    [path |-> output_path, format |-> "json", consts |-> <<>>, data |-> data]

\* the file export_to_typescript writes: three `export const` declarations
export_to_typescript(data, output_path) ==
    [path |-> output_path, format |-> "ts",
     consts |-> <<"bookData", "volunteers", "schools">>,
     data |-> [bookData |-> data["bookData"], volunteers |-> data["volunteers"],
               schools |-> data["schools"]]]

\* `sys.argv[2] if len(sys.argv) > 2 else 'json'` (sys.argv[i] is argv[i + 1])
OutputFormat(av) == IF Len(av) > 2 THEN av[3] ELSE "json"

\* `sys.argv[3] if len(sys.argv) > 3 else None`
OutputFile(av) == IF Len(av) > 3 THEN av[4] ELSE None

\* `output_format.lower() == 'ts' or output_format.lower() == 'typescript'`
IsTypeScript(output_format) ==
    Lower(output_format) = "ts" \/ Lower(output_format) = "typescript"

\* an output path that ignores the output_file argument
OutputPath_Mut(output_file, default) == default

\* `output_file or 'data.ts'`, `output_file or 'data.json'`
OutputPath(output_file, default) == PyOr(output_file, default)

\* an except block that prints and forgets sys.exit(1)
ExceptHandler_Mut(e) == [stderr |-> <<e>>, exit_code |-> 0]

\* `except Exception as e: print(f"Error: {e}", file=sys.stderr); sys.exit(1)`
ExceptHandler(e) == [stderr |-> <<e>>, exit_code |-> 1]

\* main up to the call of parse_excel_file: the usage exit, or the call with
\* a sheet_names dict of three None entries and no column_mappings
MainStart ==
    /\ pc = "main"
    /\ IF Len(argv) < 2
       THEN /\ exit_code' = 1
            /\ pc' = "exited"
            /\ UNCHANGED args
       ELSE /\ args' = [sheet_names |-> [none |-> FALSE, d |-> AllNone],
                        column_mappings |-> [none |-> TRUE, d |-> EmptyDict]]
            /\ pc' = "open"
            /\ UNCHANGED exit_code
    /\ UNCHANGED <<df, data_type, mapping, records, warnings, exc>>
    /\ UNCHANGED <<argv, fs, workbook, sheet_names, column_mappings, result,
                   calls, written, stderr>>

\* main from the return of parse_excel_file to the end of the try block:
\* the choice of exporter and path, the export (open() fails on a path that
\* cannot be written) and the summary; main then returns, exit status 0
Export ==
    /\ pc = "export"
    /\ LET output_format == OutputFormat(argv)
           output_file == OutputFile(argv)
           file == IF IsTypeScript(output_format)
                   THEN export_to_typescript(result, OutputPath(output_file, "data.ts"))
                   ELSE export_to_json(result, OutputPath(output_file, "data.json"))
       IN  IF ~fs.writable
           THEN Raise("OSError") /\ UNCHANGED <<written, exit_code>>
           ELSE /\ written' = file
                /\ exit_code' = 0
                /\ pc' = "exited"
                /\ UNCHANGED exc
    /\ UNCHANGED <<df, data_type, mapping, records, warnings>>
    /\ UNCHANGED <<argv, fs, workbook, args, sheet_names, column_mappings,
                   result, calls, stderr>>

\* main's except block, entered by any exception of the try block
MainExcept ==
    /\ pc = "raised"
    /\ IsMain
    /\ stderr' = stderr \o ExceptHandler(exc).stderr
    /\ exit_code' = ExceptHandler(exc).exit_code
    /\ pc' = "exited"
    /\ UNCHANGED <<df, data_type, mapping, records, warnings, exc>>
    /\ UNCHANGED <<argv, fs, workbook, args, sheet_names, column_mappings,
                   result, calls, written>>

-----------------------------------------------------------------------------
(* Spec: parse_excel_file called directly with any sheet_names and          *)
(* column_mappings, or run by main from a command line.                    *)

\* the sheets' tables: one that every kind can be read from under detection
\* (its second row has a text latitude), and one with a date in the latitude
\* column
PointsTable ==
    DataFrame(<<"Latitude", "Lon", "books", "name", "students">>,
              <<[Latitude |-> Num(401), Lon |-> Num(-739), books |-> Num(30),
                 name |-> Text("Ann"), students |-> Num(70)],
                [Latitude |-> Text("abc"), Lon |-> Num(-738), books |-> Num(20),
                 name |-> Text("Oak School"), students |-> Num(70)]>>)
DatesTable ==
    DataFrame(<<"lat", "lng", "count">>,
              <<[lat |-> DateCell, lng |-> Num(-739), count |-> Num(30)]>>)

SampleTables == {PointsTable, DatesTable}

\* the workbooks of 1..MaxSheets sheets named Sheet1, Sheet2, ...
Workbooks ==
    UNION {{[i \in 1..n |-> [name |-> SheetName(i), df |-> t[i]]] :
                t \in [1..n -> SampleTables]} : n \in 1..MaxSheets}

\* the sheet_names arguments: absent, or a dict that for each kind has no
\* key, None, or a name (of a sheet, of no sheet, or empty)
SheetNameArgs ==
    {[none |-> TRUE, d |-> EmptyDict]} \cup
    {[none |-> FALSE, d |-> d] :
        d \in UNION {[ks -> {None, "Sheet2", "Nope", ""}] : ks \in SUBSET Kinds}}

\* the column_mappings arguments: absent, or a dict with these mappings for
\* some of the kinds
Override(kind) ==
    CASE kind = "books" -> [lat |-> "Latitude", lng |-> "Lon"]
      [] kind = "volunteers" -> EmptyDict
      [] kind = "schools" -> [name |-> "name", students |-> "books"]

ColumnMappingArgs ==
    {[none |-> TRUE, d |-> EmptyDict]} \cup
    {[none |-> FALSE, d |-> [k \in ks |-> Override(k)]] : ks \in SUBSET Kinds}

\* the command lines
Formats == {"json", "ts", "typescript", "TS", "xml"}
Argvs ==
    {<<"parse_excel.py">>, <<"parse_excel.py", "data.xlsx">>} \cup
    {<<"parse_excel.py", "data.xlsx", f>> : f \in Formats} \cup
    {<<"parse_excel.py", "data.xlsx", f, o>> : f \in Formats, o \in {"out.txt", ""}}

Idle ==
    /\ df = DataFrame(<<>>, <<>>)
    /\ data_type = None
    /\ mapping = EmptyDict
    /\ records = <<>>
    /\ warnings = 0
    /\ exc = NoExc
    /\ sheet_names = EmptyDict
    /\ column_mappings = EmptyDict
    /\ result = NoResult
    /\ calls = NoCalls
    /\ written = NoFile
    /\ stderr = <<>>
    /\ exit_code = -1

\* a workbook file that exists and opens, or a path that is no file or no
\* workbook
InputFile ==
    \/ /\ fs.exists /\ fs.opens
       /\ workbook \in Workbooks
    \/ /\ ~(fs.exists /\ fs.opens)
       /\ workbook = <<>>

InitCall ==
    /\ pc = "open"
    /\ argv = <<>>
    /\ fs \in [exists : BOOLEAN, opens : BOOLEAN, writable : {FALSE}]
    /\ InputFile
    /\ args \in [sheet_names : SheetNameArgs, column_mappings : ColumnMappingArgs]
    /\ Idle

InitMain ==
    /\ pc = "main"
    /\ argv \in Argvs
    /\ fs \in [exists : BOOLEAN, opens : BOOLEAN, writable : BOOLEAN]
    /\ InputFile
    /\ args = NoArgs
    /\ Idle

Init == InitCall \/ InitMain

Next ==
    \/ MainStart
    \/ Open
    \/ ParseBooks
    \/ ParseVolunteers
    \/ ParseSchools
    \/ Return
    \/ Export
    \/ MainExcept

Spec == Init /\ [][Next]_vars

-----------------------------------------------------------------------------
(* Claims about the workbook loader.                                       *)

Avail == {workbook[i].name : i \in DOMAIN workbook}

\* the 1st sheet for books, the 2nd for volunteers and the 3rd for schools,
\* the 1st when the workbook has no such sheet
PositionalSheet(kind) ==
    LET n == Len(workbook)
        pos == CASE kind = "books" -> 1
                 [] kind = "volunteers" -> IF n >= 2 THEN 2 ELSE 1
                 [] kind = "schools" -> IF n >= 3 THEN 3 ELSE 1
    IN  workbook[pos].name

\* the sheet_selection as passed: no entries when it is absent
Selection == IF args.sheet_names.none THEN EmptyDict ELSE args.sheet_names.d

\* C4 (as claimed): for any selection, absent or naming sheets for a subset
\* of the kinds, each kind is read from the sheet named for it, and from the
\* positional default when none is named.
C4_Original ==
    \A k \in Kinds :
        calls[k].visited =>
            LET named == k \in DOMAIN Selection /\ Selection[k] # None
                expected == IF named THEN Selection[k] ELSE PositionalSheet(k)
            IN  expected \in Avail => calls[k].sheet = expected

\* the sheet the loader looks for: the entry's name when it is a non-empty
\* name, the positional default when the entry is None or empty
Wanted(k, entry) == IF entry \notin {None, ""} THEN entry ELSE PositionalSheet(k)

\* C4 (amended): with the selection absent every kind has the entry None.  A
\* kind with an entry is read from the entry's sheet when the entry is a
\* non-empty name and from the positional default otherwise, provided the
\* workbook has that sheet; a kind without entry in a given selection is not
\* read and its result stays empty.
C4_SheetResolution ==
    \A k \in Kinds :
        calls[k].visited =>
            IF ~args.sheet_names.none /\ k \notin DOMAIN args.sheet_names.d
            THEN calls[k].sheet = None /\ result[ResultKey(k)] = <<>>
            ELSE LET entry == IF args.sheet_names.none THEN None
                              ELSE args.sheet_names.d[k]
                 IN  calls[k].sheet =
                        IF Wanted(k, entry) \in Avail THEN Wanted(k, entry) ELSE None

\* three sheets and no selection: books, volunteers, schools read from
\* sheets 1, 2, 3
C4_Witness ==
    /\ pc = "returned"
    /\ args.sheet_names.none
    /\ Len(workbook) = 3
    /\ calls["books"].sheet = "Sheet1"
    /\ calls["volunteers"].sheet = "Sheet2"
    /\ calls["schools"].sheet = "Sheet3"

NextKind(k) == IF k = "books" THEN "volunteers" ELSE "schools"

\* a visited kind whose resolved sheet name is not a sheet of the workbook
Unavailable(k) ==
    /\ calls[k].visited
    /\ k \in DOMAIN sheet_names
    /\ Wanted(k, sheet_names[k]) \notin Avail

\* C6: the result always has exactly the keys bookData, volunteers, schools;
\* a kind whose resolved sheet is not in the workbook raises nothing, reads
\* nothing and leaves its result empty, and the loader goes on to the next
\* kind, so that a call that returns has visited all three kinds.
C6_MissingSheetSkipped ==
    /\ DOMAIN result = {"bookData", "volunteers", "schools"}
    /\ \A k \in Kinds :
          Unavailable(k) =>
              /\ ~calls[k].raised
              /\ calls[k].sheet = None
              /\ result[ResultKey(k)] = <<>>
              /\ (k # "schools" /\ ~calls[NextKind(k)].visited) => pc = NextKind(k)
              /\ k = "schools" => pc \in {"return", "returned", "export", "exited", "raised"}
              /\ (k = "schools" /\ pc = "raised") => exc = "OSError"
    /\ pc \in {"return", "returned"} => \A k \in Kinds : calls[k].visited

\* books named from a sheet the workbook does not have: no book data, and
\* the volunteers are still read
C6_Witness ==
    /\ pc = "returned"
    /\ Unavailable("books")
    /\ sheet_names["books"] = "Nope"
    /\ result["bookData"] = <<>>
    /\ calls["volunteers"].sheet # None
    /\ result["volunteers"] # <<>>

\* the column_mapping_overrides as passed: no entries when absent
Overrides == IF args.column_mappings.none THEN EmptyDict ELSE args.column_mappings.d

SheetTable(name) == workbook[CHOOSE i \in DOMAIN workbook : workbook[i].name = name].df

\* C9: for every kind whose sheet is read, the detector runs exactly when
\* the overrides have no mapping for the kind, and its result on the
\* sheet's columns is kept in column_mappings; a supplied mapping is used as
\* given; each role's column argument is the mapping's entry, and the role's
\* literal default name when the mapping has none.
C9_MappingPrecedence ==
    \A k \in Kinds :
        calls[k].sheet # None =>
            /\ calls[k].detected <=> k \notin DOMAIN Overrides
            /\ k \in DOMAIN Overrides => calls[k].mapping = Overrides[k]
            /\ calls[k].detected =>
                  /\ calls[k].mapping = auto_detect_columns(SheetTable(calls[k].sheet), k)
                  /\ column_mappings[k] = calls[k].mapping
            /\ DOMAIN calls[k].cols = Range(Roles(k))
            /\ \A role \in Range(Roles(k)) :
                  calls[k].cols[role] =
                      IF role \in DOMAIN calls[k].mapping
                      THEN calls[k].mapping[role] ELSE role

\* books read under a supplied partial mapping (count falls back to its
\* default name), volunteers under detection
C9_Witness ==
    /\ pc = "returned"
    /\ "books" \in DOMAIN Overrides
    /\ calls["books"].sheet # None
    /\ ~calls["books"].detected
    /\ calls["books"].cols = [lat |-> "Latitude", lng |-> "Lon", count |-> "count"]
    /\ calls["volunteers"].detected
    /\ calls["volunteers"].cols["lat"] = "Latitude"
    /\ calls["volunteers"].cols["id"] = "id"

-----------------------------------------------------------------------------
(* Claims about main.                                                      *)

\* C7: a run of main has no exit status before it reaches "exited", and an
\* exception that left the try block is always taken up by main's except
\* block; it exits with 1 when there
\* was no input argument, the input file is missing or is no workbook, or an
\* exception was raised while parsing or exporting, and with 0 otherwise;
\* a raised exception is caught by main, which writes its message to stderr.
C7_ExitCode ==
    IsMain =>
        /\ pc # "exited" => exit_code = -1
        /\ pc \in {"main", "open", "books", "volunteers", "schools", "return",
                    "export", "raised", "exited"}
        /\ pc = "raised" => ENABLED MainExcept
        /\ pc = "exited" =>
              /\ exit_code =
                    IF Len(argv) < 2 \/ ~fs.exists \/ ~fs.opens \/ exc # NoExc
                    THEN 1 ELSE 0
              /\ exc # NoExc => stderr = <<exc>>
              /\ (Len(argv) >= 2 /\ ~fs.exists) => exc = "FileNotFoundError"
              /\ (Len(argv) >= 2 /\ fs.exists /\ ~fs.opens) => exc # NoExc
              /\ exit_code = 0 => (written.path # None /\ fs.writable)

\* a date cell raised TypeError in a row coercer: caught, reported, exit 1
C7_Witness ==
    /\ IsMain
    /\ pc = "exited"
    /\ exc = "TypeError"
    /\ stderr = <<"TypeError">>
    /\ exit_code = 1

\* the format the claim derives from the output_format argument
ClaimedFormat ==
    IF Len(argv) > 2 /\ Lower(argv[3]) \in {"ts", "typescript"} THEN "ts" ELSE "json"

ClaimedDefaultPath == IF ClaimedFormat = "ts" THEN "data.ts" ELSE "data.json"

FormatAsClaimed ==
    /\ written.format = ClaimedFormat
    /\ written.data = result
    /\ written.consts = IF ClaimedFormat = "ts"
                        THEN <<"bookData", "volunteers", "schools">> ELSE <<>>

\* C8 (as claimed): JSON to data.json without output_format, three export
\* const declarations to data.ts for ts / typescript, and any explicit
\* output_file argument replaces the default path without changing the format.
C8_Original ==
    (IsMain /\ pc = "exited" /\ exit_code = 0) =>
        /\ FormatAsClaimed
        /\ written.path = IF Len(argv) > 3 THEN argv[4] ELSE ClaimedDefaultPath

\* C8 (amended): as claimed, except that only a non-empty output_file
\* argument replaces the default path; an empty one leaves the default.
C8_OutputChoice ==
    (IsMain /\ pc = "exited" /\ exit_code = 0) =>
        /\ FormatAsClaimed
        /\ written.path = IF Len(argv) > 3 /\ argv[4] # "" THEN argv[4]
                          ELSE ClaimedDefaultPath

\* ts with an explicit output file: TypeScript written to that file
C8_Witness ==
    /\ pc = "exited"
    /\ exit_code = 0
    /\ argv = <<"parse_excel.py", "data.xlsx", "ts", "out.txt">>
    /\ written.path = "out.txt"
    /\ written.format = "ts"
    /\ written.consts = <<"bookData", "volunteers", "schools">>

====
